---- MODULE Spec2Model ----
(***************************************************************************)
(* NeuroHome ESP32 firmware (src/edge/firmware_esp32/src/main.cpp).        *)
(*                                                                         *)
(* One thread of control runs setup() and then loop() for ever.  The agent *)
(* position is pc; every statement of main.cpp that touches the broker     *)
(* session, the clock, the sensors or the LED is one agent action.  The    *)
(* environment drops the broker link, delivers inbound payloads and lets   *)
(* time pass between any two agent actions.                                *)
(*                                                                         *)
(* Floating-point values are carried in hundredths (22.5 is 2250).         *)
(***************************************************************************)
EXTENDS Integers, Sequences, FiniteSets, TLC

\* ------------------------------------------------------------------ bounds
MaxTime   == 12500   \* time stops passing on its own beyond this horizon
TickStep  == 2500    \* granularity of the passage of time between steps
MaxFails  == 2       \* connect attempts the broker refuses, in total
MaxDrops  == 1       \* link losses, in total
MaxInbox  == 1       \* inbound payloads waiting for mqttClient.loop()
ClockBits == 16      \* width of the millisecond clock in the model

\* ------------------------------------------------------- program constants
SENSOR_INTERVAL == 5000
RETRY_DELAY     == 5000
ADC_MAX         == 4095
PRIORITY        == 5
DEVICE_ID       == "neurohome-esp32-001"

\* ------------------------------------------------------------------- state
VARIABLES
  pc,              \* position of the single thread of control
  ret,             \* caller of reconnectMQTT: "setup" or "loop"
  clock,           \* millis()
  connected,       \* mqttClient.connected()
  subscribed,      \* the broker holds a subscription for this session
  inbox,           \* payloads received on the command topic, not yet pumped
  lastSensorRead,  \* global of main.cpp
  now,             \* local of loop()
  led,             \* level of LED_PIN
  conns,           \* number of successful mqttClient.connect calls
  subs,            \* number of mqttClient.subscribe calls
  fails,           \* number of refused connect attempts
  drops,           \* number of link losses
  lastFail,        \* time of the latest refused connect attempt
  lastFire,        \* time of the latest sampler fire
  lastCmd,         \* the latest recognized command dispatched
  commandTopic,    \* the topic of the latest mqttClient.subscribe call
  sent,            \* sensor types published so far by the running readSensors
  nans,            \* sensor types whose read was NaN in the running readSensors
  uptime,          \* milliseconds elapsed since the initial state, unwrapped
  upNow,           \* uptime when now was read
  upFire,          \* uptime when the value held by lastSensorRead was read
  raw,             \* a raw analog reading handed to the light normalization
  percent,         \* its normalized value, in hundredths
  ev               \* the latest agent step, for stating the properties

vars == <<pc, ret, clock, connected, subscribed, inbox, lastSensorRead, now,
          led, conns, subs, fails, drops, lastFail, lastFire, lastCmd,
          commandTopic, sent, nans, uptime, upNow, upFire, raw, percent, ev>>

NoTime == 0 - 1

\* unsigned long arithmetic
ULongMod == 2 ^ ClockBits

\* the difference taken as a signed number
USub_Signed(a, b) == a - b

USub(a, b) == (a - b) % ULongMod

UAdd(a, b) == (a + b) % ULongMod

\* float values
NaN == [nan |-> TRUE, v |-> 0]

Float(x) == [nan |-> FALSE, v |-> x]

isnan(x) == x.nan

\* ------------------------------------------------------------ the sensors
TemperatureReads == {NaN, Float(2250)}

HumidityReads == {NaN, Float(4000)}

MotionReads == {0, 1}

LightReads == {0, ADC_MAX}

\* the normalization with the divisor of a 12-bit range taken as 4096
LightPercent_4096(lightLevel) == (lightLevel * 10000) \div (ADC_MAX + 1)

\* (lightLevel / 4095.0) * 100.0, in hundredths
LightPercent(lightLevel) == (lightLevel * 10000) \div ADC_MAX

\* ----------------------------------------------------------- the payloads
Payloads ==
  { "{\"command\":\"led_on\"}",
    "{\"command\":\"led_off\"}",
    "{\"command\":\"reboot\"}",
    "{\"value\":1}",
    "{\"command\":\"led_on\"",
    "led_on" }

\* a parser that accepts an object whose closing brace is missing
deserializeJson_Lenient(payload) ==
  CASE payload \in {"{\"command\":\"led_on\"}", "{\"command\":\"led_on\""} ->
         [error |-> FALSE, isNull |-> FALSE, command |-> "led_on"]
    [] payload = "{\"command\":\"led_off\"}" ->
         [error |-> FALSE, isNull |-> FALSE, command |-> "led_off"]
    [] payload = "{\"command\":\"reboot\"}"  ->
         [error |-> FALSE, isNull |-> FALSE, command |-> "reboot"]
    [] payload = "{\"value\":1}"             ->
         [error |-> FALSE, isNull |-> TRUE, command |-> ""]
    [] OTHER                                 ->
         [error |-> TRUE, isNull |-> TRUE, command |-> ""]

\* deserializeJson followed by doc["command"]: error is the
\* DeserializationError, isNull says that doc["command"] is a null pointer
deserializeJson(payload) ==
  CASE payload = "{\"command\":\"led_on\"}"  ->
         [error |-> FALSE, isNull |-> FALSE, command |-> "led_on"]
    [] payload = "{\"command\":\"led_off\"}" ->
         [error |-> FALSE, isNull |-> FALSE, command |-> "led_off"]
    [] payload = "{\"command\":\"reboot\"}"  ->
         [error |-> FALSE, isNull |-> FALSE, command |-> "reboot"]
    [] payload = "{\"value\":1}"             ->
         [error |-> FALSE, isNull |-> TRUE, command |-> ""]
    [] OTHER                                 ->
         [error |-> TRUE, isNull |-> TRUE, command |-> ""]

\* a dispatcher whose else branch drives the output low
Dispatch_ElseLow(command, level) ==
  IF command = "led_on" THEN TRUE ELSE FALSE

\* the if / else if / else of mqttCallback: the level of LED_PIN afterwards
Dispatch(command, level) ==
  IF command = "led_on" THEN TRUE
  ELSE IF command = "led_off" THEN FALSE
  ELSE level

\* strcmp(NULL, ...) is undefined: the build either traps or reads on and
\* falls into the else branch
NullDerefOutcomes == {"fault", "unknown"}

\* -------------------------------------------------------------------- Init
Init ==
  /\ pc = "rc_test"
  /\ ret = "setup"
  /\ clock = 0
  /\ connected = FALSE
  /\ subscribed = FALSE
  /\ inbox = <<>>
  /\ lastSensorRead = 0
  /\ now = 0
  /\ led = FALSE
  /\ conns = 0
  /\ subs = 0
  /\ fails = 0
  /\ drops = 0
  /\ lastFail = NoTime
  /\ lastFire = NoTime
  /\ lastCmd = "none"
  /\ commandTopic = <<>>
  /\ sent = <<>>
  /\ nans = {}
  /\ uptime = 0
  /\ upNow = 0
  /\ upFire = 0
  /\ raw = 0
  /\ percent = NoTime
  /\ ev = [op |-> "boot"]

\* ---------------------------------------------------------- reconnectMQTT
\* while (!mqttClient.connected())
ReconnectTest ==
  /\ pc = "rc_test"
  /\ pc' = IF connected THEN (IF ret = "setup" THEN "L59" ELSE "L62")
           ELSE "rc_connect"
  /\ ev' = [op |-> "rc_test", conn |-> connected]
  /\ UNCHANGED <<ret, clock, connected, subscribed, inbox, lastSensorRead,
                 now, led, conns, subs, fails, drops, lastFail, lastFire,
                 lastCmd>>
  /\ UNCHANGED <<commandTopic, sent, nans, uptime, upNow, upFire, raw, percent>>

\* mqttClient.connect(DEVICE_ID) returns true
ConnectOk ==
  /\ pc = "rc_connect"
  /\ connected' = TRUE
  /\ conns' = conns + 1
  /\ lastFail' = NoTime
  /\ pc' = "rc_subscribe"
  /\ ev' = [op |-> "connect", ok |-> TRUE, at |-> clock, after |-> lastFail]
  /\ UNCHANGED <<ret, clock, subscribed, inbox, lastSensorRead, now, led,
                 subs, fails, drops, lastFire,
                 lastCmd>>
  /\ UNCHANGED <<commandTopic, sent, nans, uptime, upNow, upFire, raw, percent>>

\* reconnectMQTT giving up after a refused attempt
ConnectFail_GiveUp ==
  /\ pc = "rc_connect"
  /\ fails < MaxFails
  /\ fails' = fails + 1
  /\ lastFail' = clock
  /\ pc' = IF ret = "setup" THEN "L59" ELSE "L62"
  /\ ev' = [op |-> "connect", ok |-> FALSE, at |-> clock, after |-> lastFail]
  /\ UNCHANGED <<ret, clock, connected, subscribed, inbox, lastSensorRead,
                 now, led, conns, subs, drops, lastFire,
                 lastCmd>>
  /\ UNCHANGED <<commandTopic, sent, nans, uptime, upNow, upFire, raw, percent>>

\* mqttClient.connect(DEVICE_ID) returns false
ConnectFail ==
  /\ pc = "rc_connect"
  /\ fails < MaxFails
  /\ fails' = fails + 1
  /\ lastFail' = clock
  /\ pc' = "rc_delay"
  /\ ev' = [op |-> "connect", ok |-> FALSE, at |-> clock, after |-> lastFail]
  /\ UNCHANGED <<ret, clock, connected, subscribed, inbox, lastSensorRead,
                 now, led, conns, subs, drops, lastFire,
                 lastCmd>>
  /\ UNCHANGED <<commandTopic, sent, nans, uptime, upNow, upFire, raw, percent>>

\* reconnectMQTT without the subscribe call
Subscribe_Skipped ==
  /\ pc = "rc_subscribe"
  /\ pc' = "rc_test"
  /\ ev' = [op |-> "rc_test", conn |-> connected]
  /\ UNCHANGED <<ret, clock, connected, subscribed, inbox, lastSensorRead,
                 now, led, conns, subs, fails, drops, lastFail, lastFire,
                 lastCmd>>
  /\ UNCHANGED <<commandTopic, sent, nans, uptime, upNow, upFire, raw, percent>>

\* mqttClient.subscribe("device/<DEVICE_ID>/command")
Subscribe ==
  /\ pc = "rc_subscribe"
  /\ subs' = subs + 1
  /\ subscribed' = connected
  /\ commandTopic' = <<"device", DEVICE_ID, "command">>
  /\ pc' = "rc_test"
  /\ ev' = [op |-> "subscribe", topic |-> commandTopic', conn |-> connected]
  /\ UNCHANGED <<ret, clock, connected, inbox, lastSensorRead, now, led,
                 conns, fails, drops, lastFail, lastFire,
                 lastCmd>>
  /\ UNCHANGED <<sent, nans, uptime, upNow, upFire, raw, percent>>

\* reconnectMQTT retrying at once
RetryDelay_None ==
  /\ pc = "rc_delay"
  /\ pc' = "rc_test"
  /\ ev' = [op |-> "delay"]
  /\ UNCHANGED <<ret, clock, connected, subscribed, inbox, lastSensorRead,
                 now, led, conns, subs, fails, drops, lastFail, lastFire,
                 lastCmd>>
  /\ UNCHANGED <<commandTopic, sent, nans, uptime, upNow, upFire, raw, percent>>

\* a retry wait that restarts the sampling interval
RetryDelay_Resample ==
  /\ pc = "rc_delay"
  /\ clock' = UAdd(clock, RETRY_DELAY)
  /\ uptime' = uptime + RETRY_DELAY
  /\ pc' = "rc_test"
  /\ lastSensorRead' = UAdd(clock, RETRY_DELAY)
  /\ ev' = [op |-> "delay"]
  /\ UNCHANGED <<ret, connected, subscribed, inbox, now, led,
                 conns, subs, fails, drops, lastFail, lastFire,
                 lastCmd>>
  /\ UNCHANGED <<commandTopic, sent, nans, upNow, upFire, raw, percent>>

\* delay(5000)
RetryDelay ==
  /\ pc = "rc_delay"
  /\ clock' = UAdd(clock, RETRY_DELAY)
  /\ uptime' = uptime + RETRY_DELAY
  /\ pc' = "rc_test"
  /\ ev' = [op |-> "delay"]
  /\ UNCHANGED <<ret, connected, subscribed, inbox, lastSensorRead, now, led,
                 conns, subs, fails, drops, lastFail, lastFire,
                 lastCmd>>
  /\ UNCHANGED <<commandTopic, sent, nans, upNow, upFire, raw, percent>>

\* ------------------------------------------------------------ mqttCallback
mqttCallback(payload) ==
  LET doc == deserializeJson(payload) IN
  IF doc.error
  THEN /\ led' = led
       /\ lastCmd' = lastCmd
       /\ pc' = "L65"
       /\ ev' = [op |-> "callback", payload |-> payload,
                 result |-> "parse_error", before |-> led]
  ELSE IF doc.isNull
  THEN \E o \in NullDerefOutcomes :
         /\ led' = led
         /\ lastCmd' = lastCmd
         /\ pc' = IF o = "fault" THEN "fault" ELSE "L65"
         /\ ev' = [op |-> "callback", payload |-> payload,
                   result |-> "null_command", before |-> led]
  ELSE /\ led' = Dispatch(doc.command, led)
       /\ lastCmd' = IF doc.command \in {"led_on", "led_off"}
                      THEN doc.command ELSE lastCmd
       /\ pc' = "L65"
       /\ ev' = [op |-> "callback", payload |-> payload,
                 result |-> "dispatch", before |-> led]

\* ------------------------------------------------------------------ loop
\* loop() going on to mqttClient.loop() without the connection check
LoopCheck_NoReconnect ==
  /\ pc = "L59"
  /\ pc' = "L62"
  /\ ret' = ret
  /\ ev' = [op |-> "loop_check", conn |-> connected]
  /\ UNCHANGED <<clock, connected, subscribed, inbox, lastSensorRead, now,
                 led, conns, subs, fails, drops, lastFail, lastFire,
                 lastCmd>>
  /\ UNCHANGED <<commandTopic, sent, nans, uptime, upNow, upFire, raw, percent>>

\* if (!mqttClient.connected()) reconnectMQTT();
LoopCheck ==
  /\ pc = "L59"
  /\ IF connected
       THEN pc' = "L62" /\ ret' = ret
       ELSE pc' = "rc_test" /\ ret' = "loop"
  /\ ev' = [op |-> "loop_check", conn |-> connected]
  /\ UNCHANGED <<clock, connected, subscribed, inbox, lastSensorRead, now,
                 led, conns, subs, fails, drops, lastFail, lastFire,
                 lastCmd>>
  /\ UNCHANGED <<commandTopic, sent, nans, uptime, upNow, upFire, raw, percent>>

\* mqttClient.loop(): hands at most one received payload to the callback
Pump ==
  /\ pc = "L62"
  /\ IF connected /\ inbox # <<>>
       THEN /\ mqttCallback(Head(inbox))
            /\ inbox' = Tail(inbox)
       ELSE /\ pc' = "L65"
            /\ ev' = [op |-> "pump_idle"]
            /\ UNCHANGED <<inbox, led, lastCmd>>
  /\ UNCHANGED <<ret, clock, connected, subscribed, lastSensorRead, now,
                 conns, subs, fails, drops, lastFail, lastFire>>
  /\ UNCHANGED <<commandTopic, sent, nans, uptime, upNow, upFire, raw, percent>>

\* unsigned long now = millis();
ReadMillis ==
  /\ pc = "L65"
  /\ now' = clock
  /\ upNow' = uptime
  /\ pc' = "L66"
  /\ ev' = [op |-> "millis"]
  /\ UNCHANGED <<ret, clock, connected, subscribed, inbox, lastSensorRead,
                 led, conns, subs, fails, drops, lastFail, lastFire,
                 lastCmd>>
  /\ UNCHANGED <<commandTopic, sent, nans, uptime, upFire, raw, percent>>

\* the sampler test with > for >=
SamplerTest_Strict ==
  /\ pc = "L66"
  /\ IF USub(now, lastSensorRead) > SENSOR_INTERVAL
       THEN /\ lastSensorRead' = now
            /\ lastFire' = now
            /\ upFire' = upNow
            /\ pc' = "rs_temp"
            /\ UNCHANGED <<now, upNow>>
            /\ ev' = [op |-> "fire", at |-> now, prev |-> lastFire]
       ELSE /\ pc' = "L59"
            /\ now' = 0
            /\ upNow' = 0
            /\ ev' = [op |-> "skip", at |-> now, prev |-> lastFire]
            /\ UNCHANGED <<lastSensorRead, lastFire, upFire>>
  /\ UNCHANGED <<ret, clock, connected, subscribed, inbox, led, conns, subs,
                 fails, drops, lastFail, lastCmd>>
  /\ UNCHANGED <<commandTopic, sent, nans, uptime, raw, percent>>

\* the sampler without the assignment lastSensorRead = now
SamplerTest_NoUpdate ==
  /\ pc = "L66"
  /\ IF USub(now, lastSensorRead) >= SENSOR_INTERVAL
       THEN /\ lastSensorRead' = lastSensorRead
            /\ lastFire' = now
            /\ upFire' = upFire
            /\ pc' = "rs_temp"
            /\ UNCHANGED <<now, upNow>>
            /\ ev' = [op |-> "fire", at |-> now, prev |-> lastFire]
       ELSE /\ pc' = "L59"
            /\ now' = 0
            /\ upNow' = 0
            /\ ev' = [op |-> "skip", at |-> now, prev |-> lastFire]
            /\ UNCHANGED <<lastSensorRead, lastFire, upFire>>
  /\ UNCHANGED <<ret, clock, connected, subscribed, inbox, led, conns, subs,
                 fails, drops, lastFail, lastCmd>>
  /\ UNCHANGED <<commandTopic, sent, nans, uptime, raw, percent>>

\* if (now - lastSensorRead >= SENSOR_INTERVAL) { lastSensorRead = now; ...
SamplerTest ==
  /\ pc = "L66"
  /\ IF USub(now, lastSensorRead) >= SENSOR_INTERVAL
       THEN /\ lastSensorRead' = now
            /\ lastFire' = now
            /\ upFire' = upNow
            /\ pc' = "rs_temp"
            /\ UNCHANGED <<now, upNow>>
            /\ ev' = [op |-> "fire", at |-> now, prev |-> lastFire]
       ELSE /\ pc' = "L59"
            /\ now' = 0
            /\ upNow' = 0
            /\ ev' = [op |-> "skip", at |-> now, prev |-> lastFire]
            /\ UNCHANGED <<lastSensorRead, lastFire, upFire>>
  /\ UNCHANGED <<ret, clock, connected, subscribed, inbox, led, conns, subs,
                 fails, drops, lastFail, lastCmd>>
  /\ UNCHANGED <<commandTopic, sent, nans, uptime, raw, percent>>

\* ------------------------------------------------------ publishSensorData
\* publishSensorData stamping the envelope with the time read by loop()
publishSensorData_TickStamp(sensorType, value, unit) ==
  \E ok \in (IF connected THEN BOOLEAN ELSE {FALSE}) :
    ev' = [op |-> "publish",
           topic |-> <<"device", DEVICE_ID, "sensor", sensorType>>,
           deviceId |-> DEVICE_ID, type |-> "sensor_data",
           priority |-> PRIORITY, timestamp |-> now,
           sensorType |-> sensorType, value |-> value, unit |-> unit,
           conn |-> connected, ok |-> ok, tick |-> now]

\* builds the envelope and calls mqttClient.publish; the result is ignored
publishSensorData(sensorType, value, unit) ==
  \E ok \in (IF connected THEN BOOLEAN ELSE {FALSE}) :
    ev' = [op |-> "publish",
           topic |-> <<"device", DEVICE_ID, "sensor", sensorType>>,
           deviceId |-> DEVICE_ID, type |-> "sensor_data",
           priority |-> PRIORITY, timestamp |-> clock,
           sensorType |-> sensorType, value |-> value, unit |-> unit,
           conn |-> connected, ok |-> ok, tick |-> now]

\* ------------------------------------------------------------ readSensors
ReadTemperature ==
  /\ pc = "rs_temp"
  /\ \E temperature \in TemperatureReads :
       IF ~isnan(temperature)
         THEN /\ publishSensorData("temperature", temperature, "C")
              /\ sent' = Append(sent, "temperature")
              /\ nans' = nans
         ELSE /\ ev' = [op |-> "nan", sensorType |-> "temperature",
                        read |-> temperature]
              /\ nans' = nans \cup {"temperature"}
              /\ sent' = sent
  /\ pc' = "rs_hum"
  /\ UNCHANGED <<ret, clock, connected, subscribed, inbox, lastSensorRead,
                 now, led, conns, subs, fails, drops, lastFail, lastFire,
                 lastCmd>>
  /\ UNCHANGED <<commandTopic, uptime, upNow, upFire, raw, percent>>

\* readSensors publishing the humidity only when the temperature was read too
ReadHumidity_Coupled ==
  /\ pc = "rs_hum"
  /\ \E humidity \in HumidityReads :
       IF ~isnan(humidity) /\ "temperature" \notin nans
         THEN /\ publishSensorData("humidity", humidity, "%")
              /\ sent' = Append(sent, "humidity")
              /\ nans' = nans
         ELSE /\ ev' = [op |-> "nan", sensorType |-> "humidity",
                        read |-> humidity]
              /\ nans' = nans \cup {"humidity"}
              /\ sent' = sent
  /\ pc' = "rs_motion"
  /\ UNCHANGED <<ret, clock, connected, subscribed, inbox, lastSensorRead,
                 now, led, conns, subs, fails, drops, lastFail, lastFire,
                 lastCmd>>
  /\ UNCHANGED <<commandTopic, uptime, upNow, upFire, raw, percent>>

ReadHumidity ==
  /\ pc = "rs_hum"
  /\ \E humidity \in HumidityReads :
       IF ~isnan(humidity)
         THEN /\ publishSensorData("humidity", humidity, "%")
              /\ sent' = Append(sent, "humidity")
              /\ nans' = nans
         ELSE /\ ev' = [op |-> "nan", sensorType |-> "humidity",
                        read |-> humidity]
              /\ nans' = nans \cup {"humidity"}
              /\ sent' = sent
  /\ pc' = "rs_motion"
  /\ UNCHANGED <<ret, clock, connected, subscribed, inbox, lastSensorRead,
                 now, led, conns, subs, fails, drops, lastFail, lastFire,
                 lastCmd>>
  /\ UNCHANGED <<commandTopic, uptime, upNow, upFire, raw, percent>>

\* readSensors publishing the motion with the unit of the neighbouring channels
ReadMotion_Percent ==
  /\ pc = "rs_motion"
  /\ \E motion \in MotionReads :
       publishSensorData("motion", Float(motion * 100), "%")
  /\ sent' = Append(sent, "motion")
  /\ pc' = "rs_light"
  /\ UNCHANGED <<ret, clock, connected, subscribed, inbox, lastSensorRead,
                 now, led, conns, subs, fails, drops, lastFail, lastFire,
                 lastCmd>>
  /\ UNCHANGED <<commandTopic, nans, uptime, upNow, upFire, raw, percent>>

\* readSensors repeating a publish that failed
ReadMotion_Retry ==
  /\ pc = "rs_motion"
  /\ \E motion \in MotionReads :
       publishSensorData("motion", Float(motion * 100), "bool")
  /\ sent' = Append(sent, "motion")
  /\ pc' = IF ev'.ok THEN "rs_light" ELSE "rs_motion"
  /\ UNCHANGED <<ret, clock, connected, subscribed, inbox, lastSensorRead,
                 now, led, conns, subs, fails, drops, lastFail, lastFire,
                 lastCmd>>
  /\ UNCHANGED <<commandTopic, nans, uptime, upNow, upFire, raw, percent>>

\* readSensors showing the motion reading on the LED
ReadMotion_Indicator ==
  /\ pc = "rs_motion"
  /\ \E motion \in MotionReads :
       /\ publishSensorData("motion", Float(motion * 100), "bool")
       /\ led' = (motion = 1)
  /\ sent' = Append(sent, "motion")
  /\ pc' = "rs_light"
  /\ UNCHANGED <<ret, clock, connected, subscribed, inbox, lastSensorRead,
                 now, conns, subs, fails, drops, lastFail, lastFire,
                 lastCmd>>
  /\ UNCHANGED <<commandTopic, nans, uptime, upNow, upFire, raw, percent>>

ReadMotion ==
  /\ pc = "rs_motion"
  /\ \E motion \in MotionReads :
       publishSensorData("motion", Float(motion * 100), "bool")
  /\ sent' = Append(sent, "motion")
  /\ pc' = "rs_light"
  /\ UNCHANGED <<ret, clock, connected, subscribed, inbox, lastSensorRead,
                 now, led, conns, subs, fails, drops, lastFail, lastFire,
                 lastCmd>>
  /\ UNCHANGED <<commandTopic, nans, uptime, upNow, upFire, raw, percent>>

ReadLight ==
  /\ pc = "rs_light"
  /\ \E lightLevel \in LightReads :
       publishSensorData("light", Float(LightPercent(lightLevel)), "%")
  /\ sent' = <<>>
  /\ nans' = {}
  /\ pc' = "L59"
  /\ now' = 0
  /\ upNow' = 0
  /\ UNCHANGED <<ret, clock, connected, subscribed, inbox, lastSensorRead,
                 led, conns, subs, fails, drops, lastFail, lastFire,
                 lastCmd>>
  /\ UNCHANGED <<commandTopic, uptime, upFire, raw, percent>>

\* ------------------------------------------------------- the environment
\* time passes
Tick ==
  /\ uptime + TickStep <= MaxTime
  /\ clock' = UAdd(clock, TickStep)
  /\ uptime' = uptime + TickStep
  /\ UNCHANGED <<pc, ret, connected, subscribed, inbox, lastSensorRead, now,
                 led, conns, subs, fails, drops, lastFail, lastFire,
                 lastCmd, ev>>
  /\ UNCHANGED <<commandTopic, sent, nans, upNow, upFire, raw, percent>>

\* the transport reports the loss of the link
LinkLoss ==
  /\ connected
  /\ drops < MaxDrops
  /\ drops' = drops + 1
  /\ connected' = FALSE
  /\ subscribed' = FALSE
  /\ inbox' = <<>>
  /\ UNCHANGED <<pc, ret, clock, lastSensorRead, now, led, conns, subs,
                 fails, lastFail, lastFire,
                 lastCmd, ev>>
  /\ UNCHANGED <<commandTopic, sent, nans, uptime, upNow, upFire, raw, percent>>

\* the broker forwards a payload published on the command topic
Arrive ==
  /\ connected
  /\ subscribed
  /\ Len(inbox) < MaxInbox
  /\ \E p \in Payloads : inbox' = Append(inbox, p)
  /\ UNCHANGED <<pc, ret, clock, connected, subscribed, lastSensorRead, now,
                 led, conns, subs, fails, drops, lastFail, lastFire,
                 lastCmd, ev>>
  /\ UNCHANGED <<commandTopic, sent, nans, uptime, upNow, upFire, raw, percent>>

\* ---------------------------------------------------------------- Next
Agent ==
  \/ ReconnectTest
  \/ ConnectOk
  \/ ConnectFail
  \/ Subscribe
  \/ RetryDelay
  \/ LoopCheck
  \/ Pump
  \/ ReadMillis
  \/ SamplerTest
  \/ ReadTemperature
  \/ ReadHumidity
  \/ ReadMotion
  \/ ReadLight

Next ==
  \/ ReconnectTest
  \/ ConnectOk
  \/ ConnectFail
  \/ Subscribe
  \/ RetryDelay
  \/ LoopCheck
  \/ Pump
  \/ ReadMillis
  \/ SamplerTest
  \/ ReadTemperature
  \/ ReadHumidity
  \/ ReadMotion
  \/ ReadLight
  \/ Tick
  \/ LinkLoss
  \/ Arrive

Spec == Init /\ [][Next]_vars

\* the processor keeps executing; a connect attempt that is retried for ever
\* is accepted in the end
LiveSpec == Init /\ [][Next]_vars /\ WF_vars(Agent) /\ SF_vars(ConnectOk)

\* --------------------------------------------- the light normalization
\* int lightLevel = analogRead(LIGHT_SENSOR_PIN): any value of the 12-bit ADC
LightInit ==
  /\ pc = "rs_light"
  /\ ret = "loop"
  /\ clock = 0
  /\ connected = TRUE
  /\ subscribed = TRUE
  /\ inbox = <<>>
  /\ lastSensorRead = 0
  /\ now = 0
  /\ led = FALSE
  /\ conns = 1
  /\ subs = 1
  /\ fails = 0
  /\ drops = 0
  /\ lastFail = NoTime
  /\ lastFire = 0
  /\ lastCmd = "none"
  /\ commandTopic = <<"device", DEVICE_ID, "command">>
  /\ sent = <<"motion">>
  /\ nans = {"temperature", "humidity"}
  /\ uptime = 0
  /\ upNow = 0
  /\ upFire = 0
  /\ raw \in 0..ADC_MAX
  /\ percent = NoTime
  /\ ev = [op |-> "analogRead"]

\* float lightPercent = (lightLevel / 4095.0) * 100.0;
Normalize ==
  /\ percent = NoTime
  /\ percent' = LightPercent(raw)
  /\ ev' = [op |-> "normalize"]
  /\ UNCHANGED <<pc, ret, clock, connected, subscribed, inbox, lastSensorRead,
                 now, led, conns, subs, fails, drops, lastFail, lastFire,
                 lastCmd, commandTopic, sent, nans, uptime, upNow, upFire,
                 raw>>

LightNext == Normalize

LightSpec == LightInit /\ [][LightNext]_vars

\* ------------------------------------------------- the clock rollover
\* the agent in its steady state shortly before millis() wraps: connected and
\* subscribed at the top of loop(), the sampler having just fired at a
\* reading close to the largest unsigned long
WrapInit ==
  /\ pc = "L59"
  /\ ret = "loop"
  /\ lastSensorRead \in {ULongMod - 1, ULongMod - TickStep}
  /\ clock = lastSensorRead
  /\ upFire = 0
  /\ connected = TRUE
  /\ subscribed = TRUE
  /\ inbox = <<>>
  /\ now = 0
  /\ led = FALSE
  /\ conns = 1
  /\ subs = 1
  /\ fails = 0
  /\ drops = 0
  /\ lastFail = NoTime
  /\ lastFire = lastSensorRead
  /\ lastCmd = "none"
  /\ commandTopic = <<"device", DEVICE_ID, "command">>
  /\ sent = <<>>
  /\ nans = {}
  /\ uptime = 0
  /\ upNow = 0
  /\ raw = 0
  /\ percent = NoTime
  /\ ev = [op |-> "skip", at |-> clock, prev |-> lastFire]

WrapSpec == WrapInit /\ [][Next]_vars

\* ============================================================ properties
RC == {"rc_test", "rc_connect", "rc_subscribe", "rc_delay"}

RS == {"rs_temp", "rs_hum", "rs_motion", "rs_light"}

CommandTopic == <<"device", DEVICE_ID, "command">>

MalformedPayloads == {"{\"command\":\"led_on\"", "led_on"}

NoCommandPayloads == {"{\"value\":1}"}

\* the agent is about to hand the payload at the head of the inbox to
\* mqttCallback
Handling == pc = "L62" /\ connected /\ inbox # <<>>

\* C1: no telemetry publish is attempted while the broker connection is not
\* Connected, also when the link drops after the check at the top of loop()
C1_NoPublishWhileDisconnected ==
  ev.op = "publish" => ev.conn

\* C2: every transition into Connected is followed by exactly one subscribe
\* on device/{DEVICE_ID}/command before any other agent step, and subscribe
\* is only ever called for a successful connect: the number of subscribe
\* calls equals the number of successful connects, the one connect whose
\* subscribe is the next statement aside
C2_SubscribeOncePerConnect ==
  /\ [](conns = subs + (IF pc = "rc_subscribe" THEN 1 ELSE 0))
  /\ [][ /\ (~connected /\ connected') =>
              (pc' = "rc_subscribe" /\ conns' = conns + 1)
         /\ (pc = "rc_subscribe" /\ pc' # pc) =>
              (subs' = subs + 1 /\ ev'.op = "subscribe"
                 /\ ev'.topic = CommandTopic)
         /\ (subs' # subs) => (pc = "rc_subscribe" /\ subs' = subs + 1)
       ]_vars

C2_Witness ==
  /\ conns = 2
  /\ subs = 2
  /\ drops >= 1
  /\ ev.op = "subscribe"

\* C3: a connect attempt starts Disconnected; a failing attempt leaves the
\* state Disconnected and the next attempt comes no sooner than 5000 ms after
\* it; a succeeding attempt makes the state Connected
C3_RetryBackoff ==
  [][ (pc = "rc_connect" /\ pc' # pc) =>
        /\ ~connected
        /\ (lastFail # NoTime => USub(clock, lastFail) >= 5000)
        /\ ev'.op = "connect"
        /\ (ev'.ok => connected')
        /\ (~ev'.ok => (~connected' /\ pc' = "rc_delay"))
    ]_vars

C3_Witness ==
  /\ ev.op = "connect"
  /\ ~ev.ok
  /\ ev.after # NoTime
  /\ ~connected

\* C4: reconnectMQTT has no timeout and no retry limit: it is left only from
\* its loop test with the connection up, a refused attempt is followed by the
\* delay and another test, and if connect attempts that are retried for ever
\* succeed in the end, the call returns
C4_RetryUntilConnected ==
  /\ [][ /\ (pc \in RC /\ pc' \notin RC) => (pc = "rc_test" /\ connected)
         /\ (pc = "rc_delay" /\ pc' # pc) => pc' = "rc_test"
         /\ (pc = "rc_test" /\ pc' # pc /\ ~connected) => pc' = "rc_connect"
       ]_vars
  /\ ((pc \in RC) ~> (pc \notin RC))

C4_Witness ==
  /\ fails = MaxFails
  /\ ev.op = "rc_test"
  /\ ev.conn
  /\ pc \notin RC

\* C5: there is no fatal condition: the agent is never faulted or terminated
\* and can always take a further step
C5_NeverFaulted ==
  pc # "fault" /\ ENABLED Agent

\* C6: a payload that parses but has no command field is discarded as a
\* decode failure: the actuator output is unchanged and no fault is reached
C6_MissingCommandDiscarded ==
  (ev.op = "callback" /\ ev.payload \in NoCommandPayloads) =>
    (pc # "fault" /\ led = ev.before)

\* C7: a payload that fails to parse is discarded: the callback returns
\* without dispatching, and the actuator output, the connection state and
\* lastSensorRead are unchanged
C7_MalformedDiscarded ==
  [][ (Handling /\ Head(inbox) \in MalformedPayloads /\ pc' # pc) =>
        /\ ev'.op = "callback"
        /\ ev'.result = "parse_error"
        /\ inbox' = Tail(inbox)
        /\ pc' = "L65"
        /\ led' = led
        /\ lastCmd' = lastCmd
        /\ connected' = connected
        /\ lastSensorRead' = lastSensorRead
    ]_vars

C7_Witness ==
  /\ ev.op = "callback"
  /\ ev.payload = "{\"command\":\"led_on\""
  /\ ev.result = "parse_error"
  /\ ~led
  /\ lastCmd = "led_off"

\* C8: dispatching led_on leaves the actuator output high, led_off leaves it
\* low, any other command leaves it as it was; so the output is the one set
\* by the latest recognized command
C8_Dispatch ==
  /\ [][ (Handling /\ pc' # pc) =>
           /\ Head(inbox) = "{\"command\":\"led_on\"}" => led'
           /\ Head(inbox) = "{\"command\":\"led_off\"}" => ~led'
           /\ Head(inbox) = "{\"command\":\"reboot\"}" => led' = led
       ]_vars
  /\ [](lastCmd = "led_on" => led)
  /\ [](lastCmd = "led_off" => ~led)

C8_Witness ==
  /\ ev.op = "callback"
  /\ ev.payload = "{\"command\":\"reboot\"}"
  /\ ev.result = "dispatch"
  /\ lastCmd = "led_on"
  /\ led

\* C9: the sampler fires in an iteration iff now - lastSensorRead >= 5000;
\* a fire sets lastSensorRead to now before the sensors are read and nothing
\* changes it afterwards; without a fire lastSensorRead is unchanged, no
\* sensor is read and nothing is published
C9_SamplerFiresIffDue ==
  /\ [][ (pc = "L66" /\ pc' # pc) =>
           IF USub(now, lastSensorRead) >= 5000
             THEN lastSensorRead' = now /\ pc' = "rs_temp" /\ ev'.op = "fire"
             ELSE /\ lastSensorRead' = lastSensorRead
                  /\ pc' = "L59"
                  /\ ev'.op = "skip"
       ]_vars
  /\ [][lastSensorRead' # lastSensorRead => pc = "L66"]_vars
  /\ [][(pc' # pc /\ ev'.op \in {"publish", "nan"}) => pc \in RS]_vars
  /\ [][(pc' # pc /\ pc' = "rs_temp") => pc = "L66"]_vars
  /\ [](pc \in RS => lastSensorRead = now)

C9_Witness ==
  /\ ev.op = "fire"
  /\ USub(ev.at, ev.prev) = 5000
  /\ ev.prev # NoTime
  /\ lastSensorRead = ev.at

\* C10 as claimed: consecutive sampler fires are exactly 5000 ms apart
C10_ExactInterval ==
  (ev.op = "fire" /\ ev.prev # NoTime) => ev.at - ev.prev = 5000

\* C10, amended: consecutive sampler fires are at least 5000 ms apart
C10_AtLeastInterval ==
  (ev.op = "fire" /\ ev.prev # NoTime) => ev.at - ev.prev >= 5000

C10_Witness ==
  /\ ev.op = "fire"
  /\ ev.prev # NoTime
  /\ ev.at - ev.prev > 5000

\* the envelopes a fire owes before the light channel, given its NaN reads
Owed(skip) ==
  SelectSeq(<<"temperature", "humidity", "motion">>, LAMBDA c : c \notin skip)

\* C11: on every sampler fire the temperature and the humidity channel each
\* give no envelope for a NaN read and exactly one for any other read,
\* independently of each other; motion and light give exactly one each, so a
\* fire makes between 2 and 4 publish attempts
C11_EnvelopePerChannel ==
  /\ [](ev.op = "publish" => ~ev.value.nan)
  /\ [](ev.op = "nan" =>
          (ev.read.nan /\ ev.sensorType \in {"temperature", "humidity"}))
  /\ [](nans \subseteq {"temperature", "humidity"})
  /\ [][ /\ (pc = "rs_temp" /\ pc' # pc) =>
              /\ ev'.sensorType = "temperature"
              /\ sent' = IF ev'.op = "publish" THEN <<"temperature">> ELSE <<>>
         /\ (pc = "rs_hum" /\ pc' # pc) =>
              /\ ev'.sensorType = "humidity"
              /\ sent' = IF ev'.op = "publish" THEN Append(sent, "humidity")
                         ELSE sent
         /\ (pc = "rs_motion" /\ pc' # pc) =>
              /\ ev'.op = "publish"
              /\ ev'.sensorType = "motion"
              /\ sent' = Append(sent, "motion")
         /\ (pc = "rs_light" /\ pc' # pc) =>
              /\ ev'.op = "publish"
              /\ ev'.sensorType = "light"
              /\ sent = Owed(nans)
              /\ Len(sent) + 1 = 4 - Cardinality(nans)
              /\ Len(sent) + 1 \in 2..4
       ]_vars

C11_Witness ==
  /\ pc = "rs_light"
  /\ nans = {"temperature"}
  /\ sent = <<"humidity", "motion">>

\* C12 as claimed: every envelope of a fire carries the time of the tick,
\* also when time advances between the tick and the publish
C12_TimestampIsTickTime ==
  ev.op = "publish" => ev.timestamp = ev.tick

\* C12, amended: every envelope carries millis() as read by its own
\* publishSensorData call, which is the time of the tick plus the time that
\* has passed since loop() read it
C12_TimestampIsPublishTime ==
  [][ (pc \in RS /\ pc' # pc /\ ev'.op = "publish") =>
        /\ ev'.timestamp = clock
        /\ ev'.tick = now
        /\ USub(ev'.timestamp, ev'.tick) = uptime - upNow
    ]_vars

C12_Witness ==
  /\ ev.op = "publish"
  /\ ev.tick = lastSensorRead
  /\ ev.timestamp > ev.tick

\* the unit readSensors gives to each sensor type
UnitOf(s) ==
  CASE s = "temperature" -> "C"
    [] s = "humidity"    -> "%"
    [] s = "motion"      -> "bool"
    [] s = "light"       -> "%"

\* C13: every message published has topic device/{DEVICE_ID}/sensor/{s} with
\* s one of temperature, humidity, motion, light, and a payload whose
\* deviceId is the identity used in that topic and in the subscribed command
\* topic, with type sensor_data, priority 5, data.sensorType s and the unit
\* of s; the identity never changes
C13_EnvelopeShape ==
  /\ [](ev.op = "publish" =>
          /\ ev.sensorType \in {"temperature", "humidity", "motion", "light"}
          /\ ev.topic = <<"device", ev.deviceId, "sensor", ev.sensorType>>
          /\ ev.deviceId = "neurohome-esp32-001"
          /\ commandTopic = <<"device", ev.deviceId, "command">>
          /\ ev.type = "sensor_data"
          /\ ev.priority = 5
          /\ ev.unit = UnitOf(ev.sensorType))
  /\ [](commandTopic # <<>> =>
          commandTopic = <<"device", "neurohome-esp32-001", "command">>)
  /\ [][commandTopic # <<>> => commandTopic' = commandTopic]_vars

C13_Witness ==
  /\ ev.op = "publish"
  /\ ev.sensorType = "motion"
  /\ ev.unit = "bool"
  /\ conns = 2
  /\ commandTopic[2] = ev.deviceId

\* the position after each channel of readSensors
AfterChannel(p) ==
  CASE p = "rs_temp"   -> "rs_hum"
    [] p = "rs_hum"    -> "rs_motion"
    [] p = "rs_motion" -> "rs_light"
    [] p = "rs_light"  -> "L59"

\* the number of channels the running readSensors has read
ChannelsRead ==
  CASE pc = "rs_temp"   -> 0
    [] pc = "rs_hum"    -> 1
    [] pc = "rs_motion" -> 2
    [] pc = "rs_light"  -> 3
    [] OTHER            -> 0

\* C14: delivery is at most once and nothing is buffered: every reading
\* leads to at most one publish attempt, after which readSensors moves on
\* whether or not the publish succeeded; within a fire no sensor type is
\* published twice and the attempts number the readings that were not
\* dropped; outside readSensors no publish is made or pending
C14_AtMostOnce ==
  /\ [][ (pc \in RS /\ pc' # pc) =>
           /\ pc' = AfterChannel(pc)
           /\ Len(sent') <= Len(sent) + 1
           /\ (ev'.op = "publish" /\ ~ev'.ok) => pc' = AfterChannel(pc)
       ]_vars
  /\ [][ (pc \notin RS /\ pc' # pc) => (ev'.op # "publish" /\ sent' = <<>>)
       ]_vars
  /\ [](\A i, j \in 1..Len(sent) : sent[i] = sent[j] => i = j)
  /\ [](Len(sent) + Cardinality(nans) = ChannelsRead)

C14_Witness ==
  /\ pc = "rs_light"
  /\ ev.op = "publish"
  /\ ev.sensorType = "motion"
  /\ ev.conn
  /\ ~ev.ok
  /\ sent = <<"temperature", "humidity", "motion">>

\* percent is raw / 4095 * 100 cut to hundredths, within 0..100, and not
\* below the value of the raw reading one lower
LightLinear ==
  /\ percent * 4095 <= raw * 10000
  /\ raw * 10000 < (percent + 1) * 4095
  /\ percent \in 0..10000
  /\ raw = 0 => percent = 0
  /\ raw = 4095 => percent = 10000
  /\ raw > 0 => LightPercent(raw - 1) <= percent

\* C15 as claimed: the normalization is r / 4095 * 100, 0 for 0, 100 for
\* 4095, within [0,100], non-decreasing, and about 50.03 for 2048
C15_LightMappingClaimed ==
  percent # NoTime =>
    (LightLinear /\ (raw = 2048 => percent \in 5002..5004))

\* C15, amended: the normalization is r / 4095 * 100, 0 for 0, 100 for 4095,
\* within [0,100], non-decreasing, and about 50.01 for 2048
C15_LightMapping ==
  percent # NoTime =>
    (LightLinear /\ (raw = 2048 => percent \in 5000..5002))

C15_Witness ==
  /\ raw = 2048
  /\ percent = 5001

\* C16: an iteration of loop() runs the connection check (with the blocking
\* reconnect when the connection is down), then the inbound pump, then the
\* sampler; the pump is entered only after the check or the reconnect of the
\* iteration has seen the connection up, the sampler only after the pump, and
\* payloads are decoded and dispatched only by the pump
C16_LoopOrder ==
  [][ /\ (pc' = "L62" /\ pc # "L62") =>
           /\ pc = "L59" \/ (pc = "rc_test" /\ ret = "loop")
           /\ connected
      /\ (pc' = "rc_test" /\ pc = "L59") => (~connected /\ ret' = "loop")
      /\ (pc' = "L65" /\ pc # "L65") => pc = "L62"
      /\ (pc' = "L66" /\ pc # "L66") => pc = "L65"
      /\ (pc' = "rs_temp" /\ pc # "rs_temp") => pc = "L66"
      /\ (pc' = "L59" /\ pc # "L59") =>
           \/ pc \in {"L66", "rs_light"}
           \/ (pc = "rc_test" /\ ret = "setup" /\ connected)
      /\ (pc' # pc /\ ev'.op = "callback") => pc = "L62"
      /\ (led' # led \/ lastCmd' # lastCmd) => pc = "L62"
    ]_vars

C16_Witness ==
  /\ pc = "L62"
  /\ ret = "loop"
  /\ ev.op = "rc_test"
  /\ ev.conn
  /\ fails >= 1
  /\ inbox # <<>>

\* C17: inside the blocking reconnect no sensor is sampled, nothing is
\* published and no inbound payload is dispatched; the actuator output and
\* lastSensorRead stay as they are until the reconnect has succeeded
C17_ReconnectStarves ==
  /\ [][ (pc \in RC) =>
           /\ led' = led
           /\ lastCmd' = lastCmd
           /\ lastSensorRead' = lastSensorRead
           /\ lastFire' = lastFire
           /\ sent' = sent
           /\ nans' = nans
           /\ (inbox' = inbox \/ inbox' = <<>> \/ Len(inbox') > Len(inbox))
           /\ ev'.op \notin {"fire", "skip", "publish", "nan", "callback"}
           /\ (pc' \notin RC => connected)
       ]_vars
  /\ [](pc \in RC => sent = <<>>)

C17_Witness ==
  /\ pc = "rc_delay"
  /\ ret = "loop"
  /\ led
  /\ lastFire # NoTime
  /\ USub(clock, lastSensorRead) >= 5000

\* C18: the firing test is right across the rollover of the millisecond
\* clock: the sampler fires exactly when the time really elapsed since the
\* last fire (below 2^w) is at least 5000 ms, also when now is numerically
\* smaller than lastSensorRead
C18_RolloverSafe ==
  /\ [](uptime - upFire < ULongMod)
  /\ [](clock = (lastSensorRead + (uptime - upFire)) % ULongMod)
  /\ [](pc = "L66" => now = (lastSensorRead + (upNow - upFire)) % ULongMod)
  /\ [][ (pc = "L66" /\ pc' # pc) =>
           /\ (pc' = "rs_temp") <=> (upNow - upFire >= 5000)
           /\ (pc' = "rs_temp") => (lastSensorRead' = now /\ upFire' = upNow)
           /\ (pc' # "rs_temp") =>
                (lastSensorRead' = lastSensorRead /\ upFire' = upFire)
       ]_vars

C18_Witness ==
  /\ ev.op = "fire"
  /\ ev.at < ev.prev
  /\ lastSensorRead = ev.at
  /\ pc = "rs_temp"

\* C19: handling an inbound payload never changes lastSensorRead and never
\* publishes; a sampler fire never changes the actuator output; the
\* reconnect path changes neither the actuator output nor lastSensorRead;
\* the actuator output changes only by a led_on or led_off command
C19_Frames ==
  /\ [][ (pc = "L62") =>
           /\ lastSensorRead' = lastSensorRead
           /\ lastFire' = lastFire
           /\ sent' = sent
           /\ ev'.op # "publish"
       ]_vars
  /\ [][ (pc \in RS \cup {"L65", "L66"}) => (led' = led /\ lastCmd' = lastCmd)
       ]_vars
  /\ [][ (pc \in RC) => (led' = led /\ lastSensorRead' = lastSensorRead)
       ]_vars
  /\ [][ (led' # led) =>
           /\ Handling
           /\ Head(inbox) \in {"{\"command\":\"led_on\"}",
                               "{\"command\":\"led_off\"}"}
           /\ led' = (Head(inbox) = "{\"command\":\"led_on\"}")
           /\ ev'.result = "dispatch"
       ]_vars

C19_Witness ==
  /\ ev.op = "callback"
  /\ ev.result = "dispatch"
  /\ ev.before # led
  /\ lastFire # NoTime
  /\ lastSensorRead = lastFire
  /\ fails >= 1

====
